---- MODULE Spec2Model ----
(***************************************************************************)
(* Ricochet Robot solver (ricochet.py): the cell-state store, placement of *)
(* goal, walls, blocks, bouncers and robots, the slide resolver            *)
(* (Board.trace), the move generator (Board.possible_moves), Move          *)
(* execute/undo and the iterative-deepening search (Board.search,          *)
(* Board.search_rec) with its table states_of_despair.                     *)
(***************************************************************************)
EXTENDS Integers, Sequences, FiniteSets, TLC

\* ------------------------------------------------------------- bounds
\* Width and height of the small boards the inputs are drawn from.
BoardW == 3
BoardH == 3
\* Largest min_moves / max_moves given on the command line.
MaxMoves == 3
\* Largest max_bounces given on the command line.
MaxBounces == 2

\* ------------------------------------------------ markers (lines 16-27)
NORTH == 1
EAST == 2
SOUTH == 4
WEST == 8
ROBOT == 16
GOAL == 32
BLOCK == 64
BOUNCER == 128
DIRECTIONS == <<NORTH, EAST, SOUTH, WEST>>
FLIPDIRS == (NORTH :> SOUTH) @@ (EAST :> WEST) @@ (SOUTH :> NORTH) @@ (WEST :> EAST)

VARIABLES
    kwargs,             \* the arguments main() hands to Board(**kwargs)
    width, height,      \* Board.width, Board.height
    min_moves,          \* Board.min_moves
    max_moves,          \* Board.max_moves (clamped in __init__)
    max_bounces,        \* Board.max_bounces
    positions,          \* Board.positions: cell index -> bitmask
    robots,             \* robot.position of each robot of Board.robots (-1: None)
    goal,               \* Board.goal.position (-1: None)
    placed,             \* number of placeables Board.__init__ has placed
    moves,              \* Board.moves
    states_of_despair,  \* Board.states_of_despair
    remaining_moves,    \* loop variable of Board.search
    stack,              \* the active calls of search_rec, outermost first
    pc,                 \* where main() is
    outcome             \* how main() ended

params == <<kwargs, width, height, min_moves, max_moves, max_bounces>>
boardvars == <<positions, robots, goal>>
searchvars == <<moves, states_of_despair, remaining_moves, stack>>
vars == <<kwargs, width, height, min_moves, max_moves, max_bounces, positions,
          robots, goal, placed, moves, states_of_despair, remaining_moves,
          stack, pc, outcome>>

\* ----------------------------------------------------- integer bit operations
RECURSIVE BitAnd(_, _)
\* a & b on non-negative integers
BitAnd(a, b) ==
    IF a = 0 \/ b = 0 THEN 0
    ELSE (a % 2) * (b % 2) + 2 * BitAnd(a \div 2, b \div 2)

RECURSIVE BitOr(_, _)
\* a | b on non-negative integers
BitOr(a, b) ==
    IF a = 0 THEN b
    ELSE IF b = 0 THEN a
    ELSE (IF a % 2 = 1 \/ b % 2 = 1 THEN 1 ELSE 0) + 2 * BitOr(a \div 2, b \div 2)

\* a & ~m on non-negative integers
BitAndNot(a, m) == a - BitAnd(a, m)

\* max() returning its first argument
Max_first(a, b) == a

\* max(a, b), as Board.__init__ uses it (line 36)
Max(a, b) == IF a >= b THEN a ELSE b

\* ---------------------------------------------------------- grid geometry
\* Board.check_xy
check_xy(x, y) == 1 <= x /\ x <= width /\ 1 <= y /\ y <= height

\* Board.xy_to_position
xy_to_position(x, y) == (y - 1) * width + x - 1

\* Board.position_to_xy dividing by the height
position_to_xy_by_height(position) ==
    [x |-> (position % height) + 1, y |-> (position \div height) + 1]

\* Board.position_to_xy (Python's % and // floor, as TLA+'s % and \div do)
position_to_xy(position) ==
    [x |-> (position % width) + 1, y |-> (position \div width) + 1]

\* Board.neighbour stepping east and west without looking at the column
neighbour_wrapping(position, direction) ==
    IF direction = NORTH THEN
        (IF position - width >= 0 THEN position - width ELSE -1)
    ELSE IF direction = EAST THEN
        (IF position + 1 < width * height THEN position + 1 ELSE -1)
    ELSE IF direction = SOUTH THEN
        (IF position + width < width * height THEN position + width ELSE -1)
    ELSE
        (IF position - 1 >= 0 THEN position - 1 ELSE -1)

\* Board.neighbour
neighbour(position, direction) ==
    IF direction = NORTH THEN
        (IF position - width >= 0 THEN position - width ELSE -1)
    ELSE IF direction = EAST THEN
        (IF (position + 1) % width # 0 THEN position + 1 ELSE -1)
    ELSE IF direction = SOUTH THEN
        (IF position + width < width * height THEN position + width ELSE -1)
    ELSE
        (IF position % width # 0 THEN position - 1 ELSE -1)

\* ------------------------------------------------------- cell state store
\* Board.has on a cell array
has(cells, position, mask) == BitAnd(cells[position], mask)

\* Board.add on a cell array
add(cells, position, marker) ==
    [cells EXCEPT ![position] = BitOr(cells[position], marker)]

\* Board.remove on a cell array
remove(cells, position, marker) ==
    [cells EXCEPT ![position] = BitAndNot(cells[position], marker)]

\* ---------------------------------------------------------- slide resolver
Stopped(position, bounces) ==
    [kind |-> "stop", position |-> position, bounces |-> bounces]
Raised(exception, bounces) ==
    [kind |-> exception, position |-> -1, bounces |-> bounces]

\* Board.trace returning after the first step instead of sliding on
trace_one_step(cells, position, direction, bounces) ==
    LET next_pos == neighbour(position, direction)
        blocker == ROBOT + BLOCK + FLIPDIRS[direction]
    IN  IF next_pos < 0 \/ has(cells, next_pos, blocker) # 0
        THEN Stopped(position, bounces)
        ELSE Stopped(next_pos, bounces)

RECURSIVE trace(_, _, _, _)
\* Board.trace with a blocker mask without ROBOT
trace_through_robots(cells, position, direction, bounces) ==
    LET next_pos == neighbour(position, direction)
        blocker == BLOCK + FLIPDIRS[direction]
    IN  IF next_pos < 0 \/ has(cells, next_pos, blocker) # 0 THEN
            Stopped(position, bounces)
        ELSE IF has(cells, next_pos, BOUNCER) # 0 THEN
            IF bounces >= max_bounces THEN
                Raised("BounceLoopException", bounces)
            ELSE
                LET key == BitAndNot(BitAndNot(cells[next_pos], ROBOT),
                                     BitOr(BOUNCER, direction))
                IN  IF key \notin DOMAIN FLIPDIRS THEN
                        Raised("KeyError", bounces)
                    ELSE
                        trace(cells, next_pos, FLIPDIRS[key], bounces + 1)
        ELSE
            trace(cells, next_pos, direction, bounces)

\* Board.trace allowing one redirection more than max_bounces
trace_one_more_bounce(cells, position, direction, bounces) ==
    LET next_pos == neighbour(position, direction)
        blocker == ROBOT + BLOCK + FLIPDIRS[direction]
    IN  IF next_pos < 0 \/ has(cells, next_pos, blocker) # 0 THEN
            Stopped(position, bounces)
        ELSE IF has(cells, next_pos, BOUNCER) # 0 THEN
            IF bounces > max_bounces THEN
                Raised("BounceLoopException", bounces)
            ELSE
                LET key == BitAndNot(cells[next_pos], BitOr(BOUNCER, direction))
                IN  IF key \notin DOMAIN FLIPDIRS THEN
                        Raised("KeyError", bounces)
                    ELSE
                        trace(cells, next_pos, FLIPDIRS[key], bounces + 1)
        ELSE
            trace(cells, next_pos, direction, bounces)

\* Board.trace leaving a bouncer in the direction of the marker bit that is
\* left, not in its opposite
trace_unflipped(cells, position, direction, bounces) ==
    LET next_pos == neighbour(position, direction)
        blocker == ROBOT + BLOCK + FLIPDIRS[direction]
    IN  IF next_pos < 0 \/ has(cells, next_pos, blocker) # 0 THEN
            Stopped(position, bounces)
        ELSE IF has(cells, next_pos, BOUNCER) # 0 THEN
            IF bounces >= max_bounces THEN
                Raised("BounceLoopException", bounces)
            ELSE
                LET key == BitAndNot(cells[next_pos], BitOr(BOUNCER, direction))
                IN  IF key \notin DOMAIN FLIPDIRS THEN
                        Raised("KeyError", bounces)
                    ELSE
                        trace(cells, next_pos, key, bounces + 1)
        ELSE
            trace(cells, next_pos, direction, bounces)

\* Board.trace: the resting cell, or the exception the slide raises.  A
\* turn of the while loop is a recursive use with the same bounces.
trace(cells, position, direction, bounces) ==
    LET next_pos == neighbour(position, direction)
        blocker == ROBOT + BLOCK + FLIPDIRS[direction]
    IN  IF next_pos < 0 \/ has(cells, next_pos, blocker) # 0 THEN
            Stopped(position, bounces)
        ELSE IF has(cells, next_pos, BOUNCER) # 0 THEN
            IF bounces >= max_bounces THEN
                Raised("BounceLoopException", bounces)
            ELSE
                LET key == BitAndNot(cells[next_pos], BitOr(BOUNCER, direction))
                IN  IF key \notin DOMAIN FLIPDIRS THEN
                        Raised("KeyError", bounces)
                    ELSE
                        trace(cells, next_pos, FLIPDIRS[key], bounces + 1)
        ELSE
            trace(cells, next_pos, direction, bounces)

\* ------------------------------------------------------ placeable entities
Wall(x, y, direction) ==
    [type |-> "Wall", x |-> x, y |-> y, direction |-> direction, robot |-> 0]
Block(x, y) ==
    [type |-> "Block", x |-> x, y |-> y, direction |-> 0, robot |-> 0]
\* Bouncer.from_string: orientation pq is stored as flip(p) | flip(q)
Bouncer(x, y, p, q) ==
    [type |-> "Bouncer", x |-> x, y |-> y,
     direction |-> BitOr(FLIPDIRS[p], FLIPDIRS[q]), robot |-> 0]
Robot(x, y) ==
    [type |-> "Robot", x |-> x, y |-> y, direction |-> 0, robot |-> 0]
Goal(x, y) ==
    [type |-> "Goal", x |-> x, y |-> y, direction |-> 0, robot |-> 0]

\* The marker property of each class
marker(item) ==
    CASE item.type = "Wall" -> item.direction
      [] item.type = "Block" -> BLOCK
      [] item.type = "Bouncer" -> BitOr(BOUNCER, item.direction)
      [] item.type = "Robot" -> ROBOT
      [] item.type = "Goal" -> GOAL

\* The board while Board.__init__ runs: cells, robot positions, goal
\* position, and the exception that aborted the construction ("" if none).
BoardState(cells, rpos, gpos, error) ==
    [positions |-> cells, robots |-> rpos, goal |-> gpos, error |-> error]

\* Placeable.place
Placeable_place(st, item) ==
    IF ~check_xy(item.x, item.y) THEN
        [st EXCEPT !.error = "UsageError"]
    ELSE
        LET position == xy_to_position(item.x, item.y)
        IN  [st EXCEPT
                !.positions = add(st.positions, position, marker(item)),
                !.robots = IF item.type = "Robot"
                           THEN [st.robots EXCEPT ![item.robot] = position]
                           ELSE st.robots,
                !.goal = IF item.type = "Goal" THEN position ELSE st.goal]

\* Wall.place giving the mirror wall the wall's own direction
Wall_place_unflipped(st, item) ==
    LET st1 == Placeable_place(st, item)
    IN  IF st1.error # "" THEN st1
        ELSE
            LET position == xy_to_position(item.x, item.y)
                other == position_to_xy(neighbour(position, item.direction))
                otherside == Wall(other.x, other.y, item.direction)
            IN  Placeable_place(st1, otherside)

\* Wall.place, for a wall made by Wall.from_string (otherside is None): the
\* mirror wall is built from position_to_xy of the neighbour, -1 included,
\* and, being an object, is always true in "if self.otherside".
Wall_place(st, item) ==
    LET st1 == Placeable_place(st, item)
    IN  IF st1.error # "" THEN st1
        ELSE
            LET position == xy_to_position(item.x, item.y)
                other == position_to_xy(neighbour(position, item.direction))
                otherside == Wall(other.x, other.y, FLIPDIRS[item.direction])
            IN  Placeable_place(st1, otherside)

\* The placeables in the order Board.__init__ places them (lines 40-43)
Placeables(kw) ==
    <<kw.goal>> \o kw.walls \o kw.blocks \o kw.bouncers
        \o [i \in 1..Len(kw.robots) |-> [kw.robots[i] EXCEPT !.robot = i]]

place(st, item) ==
    IF item.type = "Wall" THEN Wall_place(st, item) ELSE Placeable_place(st, item)

\* Board.__init__, lines 32-39: the board before anything is placed
EmptyBoard(kw) ==
    BoardState([p \in 0..(kw.width * kw.height - 1) |-> 0],
               [i \in 1..Len(kw.robots) |-> -1], -1, "")

RECURSIVE PlaceAll(_, _, _)
\* Board.__init__, lines 40-43, from the n-th placeable on
PlaceAll(st, items, n) ==
    IF n > Len(items) \/ st.error # "" THEN st
    ELSE PlaceAll(place(st, items[n]), items, n + 1)

\* The board Board(**kwargs) builds
InitialBoard == PlaceAll(EmptyBoard(kwargs), Placeables(kwargs), 1)

\* --------------------------------------------------------- move generator
Move(robot, direction, start_position, stop_position) ==
    [robot |-> robot, direction |-> direction,
     start_position |-> start_position, stop_position |-> stop_position]
NoMove == Move(0, 0, -1, -1)

\* possible_moves without its except clause
Caught_nothing(exception) == FALSE

\* The except clause of possible_moves (line 87)
Caught(exception) == exception = "BounceLoopException"

RECURSIVE possible_moves(_, _, _, _)
\* Board.possible_moves resumed with its loops at robot ri, direction di:
\* what next() gives (a Move, StopIteration, or an exception that the
\* generator does not catch), and where the loops stand then.
possible_moves(cells, rpos, ri, di) ==
    IF ri > Len(rpos) THEN
        [kind |-> "StopIteration", move |-> NoMove, ri |-> ri, di |-> di]
    ELSE IF di > Len(DIRECTIONS) THEN
        possible_moves(cells, rpos, ri + 1, 1)
    ELSE
        LET stop == trace(cells, rpos[ri], DIRECTIONS[di], 0)
        IN  IF stop.kind = "stop" THEN
                IF stop.position # rpos[ri] THEN
                    [kind |-> "yield",
                     move |-> Move(ri, DIRECTIONS[di], rpos[ri], stop.position),
                     ri |-> ri, di |-> di + 1]
                ELSE
                    possible_moves(cells, rpos, ri, di + 1)
            ELSE IF Caught(stop.kind) THEN
                possible_moves(cells, rpos, ri, di + 1)
            ELSE
                [kind |-> stop.kind, move |-> NoMove, ri |-> ri, di |-> di]

\* Board.robot_state
robot_state(rpos) == SortSeq(rpos, LAMBDA a, b: a < b)

\* ------------------------------------------------------------ move record
\* Robot.move without board.remove
Robot_move_unremoved(st, robot, position) ==
    [st EXCEPT !.robots = [st.robots EXCEPT ![robot] = position],
               !.positions = add(st.positions, position, ROBOT)]

\* Robot.move on a board state
Robot_move(st, robot, position) ==
    LET cells1 == remove(st.positions, st.robots[robot], ROBOT)
    IN  [st EXCEPT !.robots = [st.robots EXCEPT ![robot] = position],
                   !.positions = add(cells1, position, ROBOT)]

\* Move.execute
execute(st, move) == Robot_move(st, move.robot, move.stop_position)

\* Move.undo moving the robot to stop_position
undo_to_stop(st, move) == Robot_move(st, move.robot, move.stop_position)

\* Move.undo
undo(st, move) == Robot_move(st, move.robot, move.start_position)

\* The board as a board state
Board == BoardState(positions, robots, goal, "")

\* ------------------------------------------------------------------ inputs
Kwargs(w, h, lo, hi, nb, rs, g, ws, bs, os) ==
    [width |-> w, height |-> h, min_moves |-> lo, max_moves |-> hi,
     max_bounces |-> nb, robots |-> rs, goal |-> g, walls |-> ws,
     blocks |-> bs, bouncers |-> os]

\* Scenario A of the specification (tests.py line 5): the empty 9x9 board
ScenarioA ==
    Kwargs(9, 9, 1, 20, 50, <<Robot(5, 5)>>, Goal(6, 6), <<>>, <<>>, <<>>)

\* Scenario B: the same with walls south and east of (6,6)
ScenarioB ==
    Kwargs(9, 9, 1, 20, 50, <<Robot(5, 5)>>, Goal(6, 6),
           <<Wall(6, 6, SOUTH), Wall(6, 6, EAST)>>, <<>>, <<>>)

\* Small boards without bouncers: every search window over a few layouts
\* of robots (one, two, two on the same cell), goal, walls and block.
RobotChoices ==
    { <<Robot(1, 1)>>,
      <<Robot(2, 2)>>,
      <<Robot(1, 1), Robot(BoardW, 2)>>,
      <<Robot(2, 1), Robot(2, 2)>>,
      <<Robot(1, BoardH), Robot(BoardW, 1)>>,
      <<Robot(2, 2), Robot(2, 2)>> }
GoalChoices == { Goal(BoardW, BoardH), Goal(1, BoardH), Goal(2, 2) }
WallChoices ==
    { <<>>,
      <<Wall(2, 2, SOUTH), Wall(1, 2, EAST)>>,
      <<Wall(2, 1, EAST), Wall(2, 2, NORTH)>> }
BlockChoices == { <<>>, <<Block(2, BoardH)>> }
Windows ==
    { w \in (0..MaxMoves) \X (0..MaxMoves) :
        w[2] \in {0, MaxMoves - 1, MaxMoves} }

PlainInputs ==
    { Kwargs(BoardW, BoardH, w[1], w[2], 0, rs, g, ws, bs, <<>>) :
        w \in Windows, rs \in RobotChoices, g \in GoalChoices,
        ws \in WallChoices, bs \in BlockChoices }

\* Every wall, and every pair of walls, of the small board (those facing
\* off the board included), with or without a block outside the board.
Walls ==
    { Wall(x, y, d) : x \in 1..BoardW, y \in 1..BoardH,
                      d \in {NORTH, EAST, SOUTH, WEST} }
WallInputs ==
    { Kwargs(BoardW, BoardH, 1, 1, 0, <<Robot(1, 1)>>, Goal(2, 2), ws, bs, <<>>) :
        ws \in { <<>> } \cup { <<w>> : w \in Walls }
                 \cup { <<w[1], w[2]>> : w \in Walls \X Walls },
        bs \in { <<>> } }
        \cup
    { Kwargs(BoardW, BoardH, 1, 1, 0, <<Robot(1, 1)>>, Goal(2, 2),
             <<Wall(2, 2, NORTH)>>, <<Block(BoardW + 1, 1)>>, <<>>) }

\* Boards with bouncers: a ring of four, single ones, one on the goal
\* cell, one on a cell that also gets a wall marker.
Ring ==
    <<Bouncer(BoardW, 1, SOUTH, WEST), Bouncer(BoardW, BoardH, NORTH, WEST),
      Bouncer(1, BoardH, NORTH, EAST), Bouncer(1, 1, SOUTH, EAST)>>
BouncerChoices ==
    { Ring,
      <<Bouncer(BoardW, 1, SOUTH, WEST)>>,
      <<Bouncer(BoardW, 1, SOUTH, WEST), Bouncer(BoardW, BoardH, NORTH, WEST)>>,
      <<Bouncer(BoardW, BoardH, NORTH, WEST)>>,
      <<Bouncer(2, 2, NORTH, EAST)>>,
      <<Bouncer(2, 2, SOUTH, WEST), Bouncer(1, BoardH, NORTH, EAST)>> }
BouncerInputs ==
    { Kwargs(BoardW, BoardH, 1, MaxMoves - 1, nb, rs, g, ws, <<>>, os) :
        nb \in 0..MaxBounces,
        rs \in { <<Robot(2, 1)>>, <<Robot(2, 1), Robot(1, 2)>> },
        g \in { Goal(BoardW, BoardH), Goal(1, 2), Goal(2, 2) },
        ws \in { <<>>, <<Wall(BoardW, 1, SOUTH)>> },
        os \in BouncerChoices }

\* Boards of every width and height up to one more than the small board's,
\* a robot in the first cell, the goal in the last, with or without a wall.
GridInputs ==
    { Kwargs(w, h, 1, 2, 0, <<Robot(1, 1)>>, Goal(w, h),
             IF k = 0 THEN <<>>
             ELSE IF k = 1 THEN <<Wall(1, 1, SOUTH)>>
             ELSE <<Wall(w, h, WEST)>>,
             <<>>, <<>>) :
        w \in 1..(BoardW + 1), h \in 1..(BoardH + 1), k \in 0..2 }

\* Boards with a robot placed on the cell of a block
BlockedStartInputs ==
    { Kwargs(BoardW, BoardH, 1, hi, 0, rs, g, <<>>, <<Block(2, BoardH)>>, <<>>) :
        hi \in {1, MaxMoves},
        rs \in { <<Robot(2, BoardH)>>, <<Robot(1, 1), Robot(2, BoardH)>> },
        g \in { Goal(BoardW, BoardH), Goal(2, 2) } }

\* The ring of four bouncers with enough redirections allowed to go round
LapInputs ==
    { Kwargs(BoardW, BoardH, 1, 2, MaxBounces + 2, rs, g, <<>>, <<>>, Ring) :
        rs \in { <<Robot(2, 1)>>, <<Robot(2, 1), Robot(2, 2)>> },
        g \in { Goal(2, 2), Goal(2, BoardH) } }

Inputs ==
    PlainInputs \cup WallInputs \cup BouncerInputs \cup GridInputs
        \cup BlockedStartInputs \cup LapInputs \cup {ScenarioA, ScenarioB}

\* ------------------------------------------------------------ construction
\* Board.__init__, lines 32-39
Init ==
    /\ kwargs \in Inputs
    /\ width = kwargs.width
    /\ height = kwargs.height
    /\ min_moves = kwargs.min_moves
    /\ max_moves = Max(kwargs.max_moves, kwargs.min_moves)
    /\ max_bounces = kwargs.max_bounces
    /\ positions = EmptyBoard(kwargs).positions
    /\ robots = EmptyBoard(kwargs).robots
    /\ goal = -1
    /\ placed = 0
    /\ moves = <<>>
    /\ states_of_despair = <<>>
    /\ remaining_moves = 0
    /\ stack = <<>>
    /\ pc = "init"
    /\ outcome = ""

\* Board.__init__, lines 40-43: one placeable.place(self)
Board_init_place ==
    /\ pc = "init"
    /\ placed < Len(Placeables(kwargs))
    /\ LET st == place(Board, Placeables(kwargs)[placed + 1])
       IN  /\ positions' = st.positions
           /\ robots' = st.robots
           /\ goal' = st.goal
           /\ placed' = placed + 1
           /\ outcome' = st.error
           /\ pc' = IF st.error # "" THEN "done" ELSE "init"
    /\ UNCHANGED <<params, searchvars>>

\* Board.search starting its loop at max_moves
search_from_max ==
    /\ pc = "init"
    /\ placed = Len(Placeables(kwargs))
    /\ moves' = <<>>
    /\ states_of_despair' = <<>>
    /\ remaining_moves' = max_moves
    /\ pc' = "search"
    /\ UNCHANGED <<params, boardvars, placed, stack, outcome>>

\* main(), line 378, and Board.search, lines 110-111
search ==
    /\ pc = "init"
    /\ placed = Len(Placeables(kwargs))
    /\ moves' = <<>>
    /\ states_of_despair' = <<>>
    /\ remaining_moves' = min_moves
    /\ pc' = "search"
    /\ UNCHANGED <<params, boardvars, placed, stack, outcome>>

\* ----------------------------------------------------------------- search
Frame(remaining, phase) ==
    [remaining_moves |-> remaining, phase |-> phase, current_state |-> <<>>,
     ri |-> 1, di |-> 1, move |-> NoMove]

Top == stack[Len(stack)]
SetTop(frame) == [stack EXCEPT ![Len(stack)] = frame]
Pop == SubSeq(stack, 1, Len(stack) - 1)

\* The innermost call of search_rec returns False: its caller goes on at
\* line 132, or the loop of search goes on with the next budget.
ReturnFalse ==
    IF Len(stack) = 1 THEN
        /\ stack' = <<>>
        /\ remaining_moves' = remaining_moves + 1
        /\ pc' = "search"
    ELSE
        /\ stack' = [Pop EXCEPT ![Len(stack) - 1].phase = "undo"]
        /\ remaining_moves' = remaining_moves
        /\ pc' = pc

\* Board.search, lines 112-113 and 118: the next budget, or giving up
search_for ==
    /\ pc = "search"
    /\ IF remaining_moves <= max_moves THEN
           /\ stack' = <<Frame(remaining_moves, "enter")>>
           /\ pc' = "search_rec"
           /\ outcome' = outcome
       ELSE
           /\ stack' = stack
           /\ pc' = "done"
           /\ outcome' = "NoSolution"
    /\ UNCHANGED <<params, boardvars, placed, moves, states_of_despair,
                   remaining_moves>>

\* states_of_despair.get(current_state, -1)
tried_default_below(despair, state) ==
    IF state \in DOMAIN despair THEN despair[state] ELSE -1

\* The table read one too deep
tried_one_more(despair, state) ==
    IF state \in DOMAIN despair THEN despair[state] + 1 ELSE 0

\* states_of_despair.get(current_state, 0)
tried(despair, state) == IF state \in DOMAIN despair THEN despair[state] ELSE 0

\* Board.search_rec, lines 121-123 (and 135 when the state is pruned)
search_rec ==
    /\ pc = "search_rec"
    /\ Top.phase = "enter"
    /\ LET current_state == robot_state(robots)
       IN  IF tried(states_of_despair, current_state) < Top.remaining_moves THEN
               /\ stack' = SetTop([Top EXCEPT !.phase = "for",
                                              !.current_state = current_state])
               /\ remaining_moves' = remaining_moves
               /\ pc' = pc
           ELSE
               ReturnFalse
    /\ UNCHANGED <<params, boardvars, placed, moves, states_of_despair, outcome>>

\* Board.search_rec, line 124: the generator is resumed; when it is
\* exhausted, lines 134-135; an exception it does not catch ends main().
search_rec_for ==
    /\ pc = "search_rec"
    /\ Top.phase = "for"
    /\ LET next == possible_moves(positions, robots, Top.ri, Top.di)
       IN  CASE next.kind = "yield" ->
                  /\ stack' = SetTop([Top EXCEPT !.phase = "body",
                                                 !.move = next.move,
                                                 !.ri = next.ri,
                                                 !.di = next.di])
                  /\ UNCHANGED <<states_of_despair, remaining_moves, pc, outcome>>
             [] next.kind = "StopIteration" ->
                  /\ states_of_despair' =
                        [s \in DOMAIN states_of_despair \cup {Top.current_state} |->
                            IF s = Top.current_state THEN Top.remaining_moves
                            ELSE states_of_despair[s]]
                  /\ ReturnFalse
                  /\ outcome' = outcome
             [] OTHER ->
                  /\ pc' = "done"
                  /\ outcome' = next.kind
                  /\ UNCHANGED <<states_of_despair, remaining_moves, stack>>
    /\ UNCHANGED <<params, boardvars, placed, moves>>

\* Board.search_rec testing the goal before it appends the move
search_rec_body_append_late ==
    /\ pc = "search_rec"
    /\ Top.phase = "body"
    /\ LET st == execute(Board, Top.move)
       IN  /\ positions' = st.positions
           /\ robots' = st.robots
           /\ IF has(st.positions, goal, ROBOT) # 0 THEN
                  /\ moves' = moves
                  /\ stack' = stack
                  /\ pc' = "done"
                  /\ outcome' = "Solution"
              ELSE IF Top.remaining_moves > 1 THEN
                  /\ moves' = Append(moves, Top.move)
                  /\ stack' = Append(SetTop([Top EXCEPT !.phase = "called"]),
                                     Frame(Top.remaining_moves - 1, "enter"))
                  /\ UNCHANGED <<pc, outcome>>
              ELSE
                  /\ moves' = Append(moves, Top.move)
                  /\ stack' = SetTop([Top EXCEPT !.phase = "undo"])
                  /\ UNCHANGED <<pc, outcome>>
    /\ UNCHANGED <<params, goal, placed, states_of_despair, remaining_moves>>

\* Board.search_rec, lines 125-131: the move is executed and appended; a
\* robot on the goal returns True through every caller (search prints the
\* solution); else the search goes one level down, or to line 132.
search_rec_body ==
    /\ pc = "search_rec"
    /\ Top.phase = "body"
    /\ LET st == execute(Board, Top.move)
       IN  /\ positions' = st.positions
           /\ robots' = st.robots
           /\ moves' = Append(moves, Top.move)
           /\ IF has(st.positions, goal, ROBOT) # 0 THEN
                  /\ stack' = stack
                  /\ pc' = "done"
                  /\ outcome' = "Solution"
              ELSE IF Top.remaining_moves > 1 THEN
                  /\ stack' = Append(SetTop([Top EXCEPT !.phase = "called"]),
                                     Frame(Top.remaining_moves - 1, "enter"))
                  /\ UNCHANGED <<pc, outcome>>
              ELSE
                  /\ stack' = SetTop([Top EXCEPT !.phase = "undo"])
                  /\ UNCHANGED <<pc, outcome>>
    /\ UNCHANGED <<params, goal, placed, states_of_despair, remaining_moves>>

\* Board.search_rec, lines 132-133
search_rec_undo ==
    /\ pc = "search_rec"
    /\ Top.phase = "undo"
    /\ LET st == undo(Board, Top.move)
       IN  /\ positions' = st.positions
           /\ robots' = st.robots
    /\ moves' = SubSeq(moves, 1, Len(moves) - 1)
    /\ stack' = SetTop([Top EXCEPT !.phase = "for", !.move = NoMove])
    /\ UNCHANGED <<params, goal, placed, states_of_despair, remaining_moves,
                   pc, outcome>>

Next ==
    \/ Board_init_place
    \/ search
    \/ search_for
    \/ search_rec
    \/ search_rec_for
    \/ search_rec_body
    \/ search_rec_undo

Spec == Init /\ [][Next]_vars

\* ------------------------------------------------- what the claims speak of
\* The win condition of the specification: some robot's position is the goal
RobotOnGoal(st) == \E i \in DOMAIN st.robots : st.robots[i] = st.goal

\* The legal slides of a configuration: robot i, direction d, resting on a
\* cell other than the one it starts on
LegalMoves(st) ==
    { Move(i, DIRECTIONS[j], st.robots[i],
           trace(st.positions, st.robots[i], DIRECTIONS[j], 0).position) :
        <<i, j>> \in
            { ij \in (DOMAIN st.robots) \X (DOMAIN DIRECTIONS) :
                LET stop == trace(st.positions, st.robots[ij[1]], DIRECTIONS[ij[2]], 0)
                IN  stop.kind = "stop" /\ stop.position # st.robots[ij[1]] } }

Successors(st) == { execute(st, m) : m \in LegalMoves(st) }

RECURSIVE SolvableWithin(_, _)
\* Some sequence of 1..k legal slides from a configuration of the set
\* ends with a robot on the goal (the set grows by what one more slide
\* reaches, until nothing new is reached)
SolvableWithin(frontier, k) ==
    IF k <= 0 \/ frontier = {} THEN FALSE
    ELSE LET next == UNION { Successors(st) : st \in frontier }
         IN  \/ \E st \in next : RobotOnGoal(st)
             \/ /\ ~(next \subseteq frontier)
                /\ SolvableWithin(frontier \cup next, k - 1)

Solvable(k) == SolvableWithin({InitialBoard}, k)

\* The robots are placed on pairwise distinct cells
DistinctStarts ==
    LET rpos == InitialBoard.robots
    IN  \A i, j \in DOMAIN rpos : i # j => rpos[i] # rpos[j]

Constructed == placed = Len(Placeables(kwargs)) /\ outcome # "UsageError"
Solution == pc = "done" /\ outcome = "Solution"
NoSolution == pc = "done" /\ outcome = "NoSolution"

\* The board after the first n placeables have been placed
BoardAfter(n) ==
    PlaceAll(EmptyBoard(kwargs), SubSeq(Placeables(kwargs), 1, n), 1)

RECURSIVE After(_, _, _)
\* The configuration after the first n moves of a move list
After(st, ms, n) == IF n = 0 THEN st ELSE execute(After(st, ms, n - 1), ms[n])

\* A move is a legal slide of a configuration
LegalStep(st, m) ==
    /\ m.robot \in DOMAIN st.robots
    /\ m.start_position = st.robots[m.robot]
    /\ m.stop_position # m.start_position
    /\ trace(st.positions, m.start_position, m.direction, 0).kind = "stop"
    /\ trace(st.positions, m.start_position, m.direction, 0).position
           = m.stop_position

RECURSIVE Reachable(_, _)
\* Every configuration legal slides lead to from the frontier
Reachable(seen, frontier) ==
    IF frontier = {} THEN seen
    ELSE LET next == (UNION { Successors(st) : st \in frontier }) \ seen
         IN  Reachable(seen \cup next, next)

RECURSIVE Yields(_, _, _, _)
\* The moves the generator yields from robot ri, direction di on
Yields(cells, rpos, ri, di) ==
    LET next == possible_moves(cells, rpos, ri, di)
    IN  IF next.kind = "yield"
        THEN {next.move} \cup Yields(cells, rpos, next.ri, next.di)
        ELSE {}

RECURSIVE GeneratorEnd(_, _, _, _)
\* How the generator ends: StopIteration, or the exception it lets through
GeneratorEnd(cells, rpos, ri, di) ==
    LET next == possible_moves(cells, rpos, ri, di)
    IN  IF next.kind = "yield" THEN GeneratorEnd(cells, rpos, next.ri, next.di)
        ELSE next.kind

InFor == pc = "search_rec" /\ Top.phase = "for"
InBody == pc = "search_rec" /\ Top.phase = "body"

\* ------------------------------------------------------------------ claims

C3_ScenarioBSolved ==
    (kwargs = ScenarioB /\ pc = "done") =>
        /\ outcome = "Solution"
        /\ Len(moves) = 2
        /\ moves[1].direction = EAST
        /\ moves[2].direction = SOUTH
        /\ robots[1] = goal

\* C3, amended: on scenario B search() reports no solution within 20
\* moves; the robot never rests on (6,6) during the search, and no
\* sequence of legal slides takes it there (east takes it to (9,5)).
C3_ScenarioBUnsolvable ==
    kwargs = ScenarioB =>
        /\ Constructed => ~RobotOnGoal(Board)
        /\ pc = "done" =>
              /\ outcome = "NoSolution"
              /\ \A st \in Reachable({InitialBoard}, {InitialBoard}) :
                     ~RobotOnGoal(st)
              /\ Move(1, EAST, xy_to_position(5, 5), xy_to_position(9, 5))
                     \in LegalMoves(InitialBoard)

\* C3, witness: the search of scenario B has ended
C3_Witness ==
    kwargs = ScenarioB /\ NoSolution /\ states_of_despair # <<>>

\* C4: on scenario A search() reports no solution, and in no configuration
\* that legal slides lead to does the robot rest on (6,6).
C4_ScenarioAUnsolvable ==
    kwargs = ScenarioA =>
        /\ Constructed => ~RobotOnGoal(Board)
        /\ pc = "done" =>
              /\ outcome = "NoSolution"
              /\ \A st \in Reachable({InitialBoard}, {InitialBoard}) :
                     ~RobotOnGoal(st)

\* C4, witness: the search of scenario A has ended with all twenty budgets
\* tried
C4_Witness ==
    kwargs = ScenarioA /\ NoSolution /\ remaining_moves = 21

\* C5, as stated: placing a wall at an in-bounds cell C facing a direction
\* D in which C has no neighbour succeeds, and leaves the board as it was
\* but for marker D on C.
C5_OffBoardWallPlaced ==
    \A n \in 1..placed :
        LET w == Placeables(kwargs)[n]
            c == xy_to_position(w.x, w.y)
        IN  (/\ n = placed
             /\ w.type = "Wall"
             /\ check_xy(w.x, w.y)
             /\ neighbour(c, w.direction) = -1)
            => /\ outcome # "UsageError"
               /\ positions = add(BoardAfter(n - 1).positions, c, w.direction)

\* C6: a wall placed at a cell C facing D, where C has a neighbour B in
\* direction D, leaves D on C and flip(D) on B; and on a board without
\* bouncers a cell has the wall bit D toward an existing neighbour iff the
\* neighbour has the bit flip(D).
C6_WallSymmetry ==
    /\ \A n \in 1..placed :
           LET w == Placeables(kwargs)[n]
               c == xy_to_position(w.x, w.y)
               b == neighbour(c, w.direction)
           IN  (w.type = "Wall" /\ check_xy(w.x, w.y) /\ b >= 0)
               => /\ has(positions, c, w.direction) # 0
                  /\ has(positions, b, FLIPDIRS[w.direction]) # 0
    /\ kwargs.bouncers = <<>> =>
           \A a \in DOMAIN positions, d \in DOMAIN FLIPDIRS :
               neighbour(a, d) >= 0 =>
                   (has(positions, a, d) # 0
                       <=> has(positions, neighbour(a, d), FLIPDIRS[d]) # 0)

\* C6, witness: two walls with neighbours have been placed
C6_Witness ==
    /\ placed >= 3
    /\ outcome = ""
    /\ \A n \in 2..3 :
           /\ Placeables(kwargs)[n].type = "Wall"
           /\ neighbour(xy_to_position(Placeables(kwargs)[n].x,
                                       Placeables(kwargs)[n].y),
                        Placeables(kwargs)[n].direction) >= 0
    /\ Placeables(kwargs)[2] # Placeables(kwargs)[3]

C8_SearchNeverFails ==
    (pc = "done" /\ Constructed) => outcome \in {"Solution", "NoSolution"}

\* C9: a slide that bouncers would redirect more than max_bounces times
\* ends in BounceLoop after max_bounces redirections; the generator then
\* goes on exactly as if it had been resumed at the next direction, so it
\* yields no Move for that robot and direction, and, when it runs to its
\* end, exactly the legal slides; BounceLoop never ends the search.
C9_BounceLoopHandled ==
    /\ outcome # "BounceLoopException"
    /\ InFor =>
        /\ \A i \in DOMAIN robots, j \in DOMAIN DIRECTIONS :
               LET stop == trace(positions, robots[i], DIRECTIONS[j], 0)
               IN  stop.kind = "BounceLoopException" =>
                     /\ stop.bounces <= max_bounces
                     /\ possible_moves(positions, robots, i, j)
                            = possible_moves(positions, robots, i, j + 1)
                     /\ \A m \in Yields(positions, robots, 1, 1) :
                            ~(m.robot = i /\ m.direction = DIRECTIONS[j])
        /\ GeneratorEnd(positions, robots, 1, 1) = "StopIteration" =>
               Yields(positions, robots, 1, 1) = LegalMoves(Board)

\* C9, witness: a robot one of whose slides ends in BounceLoop after going
\* round bouncers while another of its slides is yielded
C9_Witness ==
    /\ InFor
    /\ max_bounces >= 1
    /\ GeneratorEnd(positions, robots, 1, 1) = "StopIteration"
    /\ \E i \in DOMAIN robots, j \in DOMAIN DIRECTIONS :
           /\ trace(positions, robots[i], DIRECTIONS[j], 0).kind
                  = "BounceLoopException"
           /\ \E m \in Yields(positions, robots, 1, 1) : m.robot = i

C11_Step ==
    /\ (pc = "init" /\ pc' = "search") => remaining_moves' = min_moves
    /\ (pc = "search" /\ pc' = "search_rec") =>
           /\ remaining_moves <= max_moves
           /\ remaining_moves' = remaining_moves
           /\ stack' = <<Frame(remaining_moves, "enter")>>
    /\ (pc = "search" /\ pc' = "done") =>
           /\ remaining_moves = max_moves + 1
           /\ outcome' = "NoSolution"
    /\ (pc = "search_rec" /\ pc' = "search") =>
           /\ remaining_moves' = remaining_moves + 1
           /\ stack' = <<>>
    /\ (pc = "search_rec" /\ pc' # "search") =>
           /\ remaining_moves' = remaining_moves
           /\ stack'[1].remaining_moves = remaining_moves

\* C11, in every state: max_moves is the larger of the given max_moves and
\* min_moves; the budget in use lies in min_moves..max_moves and is the one
\* the outermost search_rec was called with; a solution is reported with
\* the budget that succeeded; no solution is reported only after the
\* budget max_moves failed, so after one budget at least, and after
\* exactly one, min_moves, when the given max_moves is less than min_moves.
C11_Window ==
    /\ max_moves >= kwargs.max_moves
    /\ max_moves >= kwargs.min_moves
    /\ max_moves \in {kwargs.max_moves, kwargs.min_moves}
    /\ min_moves = kwargs.min_moves
    /\ pc = "search" => (min_moves <= remaining_moves /\ remaining_moves <= max_moves + 1)
    /\ (pc = "search_rec" \/ Solution) =>
           /\ min_moves <= remaining_moves
           /\ remaining_moves <= max_moves
           /\ stack[1].remaining_moves = remaining_moves
    /\ NoSolution =>
           /\ remaining_moves = max_moves + 1
           /\ remaining_moves > min_moves
           /\ kwargs.max_moves < kwargs.min_moves => remaining_moves = min_moves + 1

\* C11: the effective max_moves is max(max_moves, min_moves); search() runs
\* search_rec with the budgets min_moves, min_moves + 1, ..., max_moves in
\* increasing order, stops at the first that succeeds, and always tries at
\* least one (only min_moves when the given max_moves is smaller).
C11_SearchWindow == [](C11_Window) /\ [][C11_Step]_vars

\* C11, witness: no solution after the single budget min_moves >= 2 of a
\* window whose given max_moves is less than min_moves
C11_Witness ==
    /\ NoSolution
    /\ kwargs.max_moves < kwargs.min_moves
    /\ min_moves >= 2
    /\ remaining_moves = min_moves + 1
    /\ states_of_despair # <<>>

\* C12: on the board of the given width and height, position_to_xy undoes
\* xy_to_position for every (x, y) with 1 <= x <= width, 1 <= y <= height,
\* and xy_to_position undoes position_to_xy for every cell index
\* 0 <= p < width * height; each maps into the other's domain, so the two
\* are inverse bijections.  (Width and height never change: it is stated
\* of the states of the construction, where the placeables are converted.)
C12_InverseMaps ==
    pc = "init" =>
        /\ \A x \in 1..width, y \in 1..height :
               /\ xy_to_position(x, y) \in 0..(width * height - 1)
               /\ position_to_xy(xy_to_position(x, y)) = [x |-> x, y |-> y]
        /\ \A p \in 0..(width * height - 1) :
               /\ check_xy(position_to_xy(p).x, position_to_xy(p).y)
               /\ xy_to_position(position_to_xy(p).x, position_to_xy(p).y) = p

\* C12: in every state reached, position_to_xy and xy_to_position are
\* inverse bijections between the cells (x, y) of the board and the cell
\* indices 0..width*height-1.
C12_RoundTrip == []C12_InverseMaps

\* C12, witness: on a board higher than wide, of two columns or more, the
\* goal has been placed in the last cell through xy_to_position, and
\* position_to_xy gives its coordinates back
C12_Witness ==
    /\ pc = "init"
    /\ 2 <= width /\ width < height
    /\ placed >= 1
    /\ goal = xy_to_position(width, height)
    /\ position_to_xy(goal) = [x |-> width, y |-> height]

\* C13: for every cell index p of the board, neighbour(p, NORTH) is -1 in
\* the first row and p - width elsewhere, neighbour(p, SOUTH) is -1 in the
\* last row and p + width elsewhere, neighbour(p, EAST) is -1 in the last
\* column and p + 1 elsewhere, neighbour(p, WEST) is -1 in the first
\* column and p - 1 elsewhere; a neighbour is a cell of the board, in the
\* same row for EAST and WEST and in the same column for NORTH and SOUTH.
\* (Width and height never change: it is stated of the states of the
\* construction, where Wall.place asks for the neighbours.)
C13_EveryCell ==
    pc = "init" =>
        \A p \in 0..(width * height - 1) :
            LET x == (p % width) + 1
                y == (p \div width) + 1
            IN  /\ neighbour(p, NORTH) = (IF y = 1 THEN -1 ELSE p - width)
                /\ neighbour(p, SOUTH) = (IF y = height THEN -1 ELSE p + width)
                /\ neighbour(p, EAST) = (IF x = width THEN -1 ELSE p + 1)
                /\ neighbour(p, WEST) = (IF x = 1 THEN -1 ELSE p - 1)
                /\ \A d \in {NORTH, EAST, SOUTH, WEST} :
                       LET n == neighbour(p, d)
                       IN  n # -1 =>
                             /\ n \in 0..(width * height - 1)
                             /\ d \in {EAST, WEST} => (n \div width) + 1 = y
                             /\ d \in {NORTH, SOUTH} => (n % width) + 1 = x

\* C13: in every state reached, neighbour is -1 exactly off the four
\* edges, and otherwise the adjacent cell index in the same row or column.
C13_NeighbourBounds == []C13_EveryCell

\* C13, witness: on a board whose width and height differ, the wall west of
\* the last cell has been placed, with its mirror on the neighbour to the
\* west, in the same row; the cell has no neighbour to the east or south
C13_Witness ==
    /\ pc = "init"
    /\ width # height /\ width >= 2 /\ height >= 2
    /\ placed >= 2
    /\ Placeables(kwargs)[2] = Wall(width, height, WEST)
    /\ neighbour(goal, WEST) = goal - 1
    /\ has(positions, neighbour(goal, WEST), EAST) # 0
    /\ neighbour(goal, EAST) = -1
    /\ neighbour(goal, SOUTH) = -1

\* The configurations whose sorted robot positions are S: the initial board
\* with its robots taken off and put on the cells of S, in any order
ConfigsOf(S) ==
    LET bare == [p \in DOMAIN InitialBoard.positions |->
                    BitAndNot(InitialBoard.positions[p], ROBOT)]
    IN  { BoardState([p \in DOMAIN bare |->
                         IF \E i \in DOMAIN rp : rp[i] = p
                         THEN BitOr(bare[p], ROBOT) ELSE bare[p]],
                     rp, InitialBoard.goal, "") :
            rp \in { f \in [DOMAIN S -> { S[i] : i \in DOMAIN S }] :
                       robot_state(f) = S } }

\* No sequence of 1..r legal slides from a configuration of sorted robot
\* positions S puts a robot on the goal
DespairSound(S, r) == \A st \in ConfigsOf(S) : ~SolvableWithin({st}, r)

\* The innermost search_rec returns False without a move tried: nothing
\* but the stack (and, at the outermost call, the budget) changes
PrunedStep ==
    /\ Len(stack') = Len(stack) - 1
    /\ UNCHANGED <<positions, robots, moves, states_of_despair>>

\* C14, the table: an entry is written only by the call that has tried
\* every move of its configuration, under that configuration's sorted robot
\* positions and with that call's budget, a larger one than the entry had.
C14_Written ==
    states_of_despair' # states_of_despair =>
        /\ InFor
        /\ Top.current_state = robot_state(robots)
        /\ tried(states_of_despair, Top.current_state) < Top.remaining_moves
        /\ DOMAIN states_of_despair' = DOMAIN states_of_despair \cup {Top.current_state}
        /\ states_of_despair'[Top.current_state] = Top.remaining_moves
        /\ \A S \in DOMAIN states_of_despair \ {Top.current_state} :
               states_of_despair'[S] = states_of_despair[S]

\* C14, pruning: a call of search_rec on a configuration recorded at depth
\* r returns at once when its budget is at most r and goes on to try the
\* moves when its budget is larger.
C14_Pruned ==
    (/\ pc = "search_rec" /\ Top.phase = "enter"
     /\ robot_state(robots) \in DOMAIN states_of_despair) =>
        IF Top.remaining_moves <= states_of_despair[robot_state(robots)]
        THEN PrunedStep
        ELSE /\ Len(stack') = Len(stack)
             /\ stack'[Len(stack)].phase = "for"
             /\ stack'[Len(stack)].ri = 1 /\ stack'[Len(stack)].di = 1

\* C14, soundness of what is written: the entry S -> r a step writes is
\* such that no sequence of 1..r legal slides from a configuration whose
\* sorted robot positions are S puts a robot on the goal.  (Whether an
\* entry is sound depends on the placed board only, so with C14_Written
\* every entry of the table is sound at every point.)
C14_EntrySound ==
    states_of_despair' # states_of_despair =>
        DespairSound(Top.current_state, Top.remaining_moves)

\* The same of every entry of the table
C14_TableSound ==
    \A S \in DOMAIN states_of_despair : DespairSound(S, states_of_despair[S])

MovesAtEntry == [k \in 1..(Len(stack) - 1) |-> stack[k].move]

\* The innermost call of search_rec has no move of its own applied
AtRest == pc = "search_rec" /\ Top.phase \in {"enter", "for", "body"}

\* C15, in every state: whenever the innermost call of search_rec has no
\* move of its own applied (at its entry, between two moves, and so when
\* it returns False) the move list is the one it was entered with, and the
\* board is the initial board with that list applied in order; when
\* search() reports no solution the board is the initial board and the
\* move list is empty.
C15_Restored ==
    /\ AtRest =>
           /\ moves = MovesAtEntry
           /\ Board = After(InitialBoard, moves, Len(moves))
    /\ NoSolution => (Board = InitialBoard /\ moves = <<>>)

\* C15, one step: a call that returns False changes neither the board nor
\* the move list as it returns, and no step changes the moves of the calls
\* below the innermost one, so the list a call was entered with is the one
\* it returns with.
C15_Return ==
    /\ (pc = "search_rec" /\ Len(stack') < Len(stack)) =>
           UNCHANGED <<positions, robots, moves>>
    /\ pc = "search_rec" =>
           \A k \in 1..(Len(stack) - 1) :
               k <= Len(stack') => stack'[k].move = stack[k].move

BouncerAlone(n, p, q) ==
    LET o == kwargs.bouncers[n]
    IN  /\ o = Bouncer(o.x, o.y, p, q)
        /\ positions[xy_to_position(o.x, o.y)] = BOUNCER + FLIPDIRS[p] + FLIPDIRS[q]

\* The slide that has come to the cell at, moving in direction d, after
\* bounces redirections, goes on as the slide from the cell c in direction
\* e with one redirection more
Redirected(at, d, bounces, c, e) ==
    trace(positions, at, d, bounces) = trace(positions, c, e, bounces + 1)

\* C16: a slide enters a bouncer's cell when it comes to it having been
\* redirected fewer than max_bounces times (otherwise it fails with
\* BounceLoop before it enters).  For a bouncer pq that is alone on its
\* cell, a slide that enters the cell moving in flip(p) (from the cell's
\* neighbour in direction p) goes on from the bouncer's cell in direction
\* q with one redirection more, one that enters moving in flip(q) goes on
\* from it in direction p, and the result of the slide is the result of
\* the slide it goes on as; a slide moving in p or q toward the bouncer
\* rests on the cell before it, as it would if the cell carried a block.
C16_EveryBouncer ==
    Constructed =>
        \A n \in DOMAIN kwargs.bouncers, p \in {NORTH, SOUTH}, q \in {EAST, WEST} :
            BouncerAlone(n, p, q) =>
                LET c == xy_to_position(kwargs.bouncers[n].x, kwargs.bouncers[n].y)
                    blocked == [positions EXCEPT ![c] = BLOCK]
                    from(d) == neighbour(c, FLIPDIRS[d])
                IN  /\ \A k \in 0..(max_bounces - 1) :
                           /\ neighbour(c, p) >= 0 =>
                                  /\ neighbour(neighbour(c, p), FLIPDIRS[p]) = c
                                  /\ Redirected(neighbour(c, p), FLIPDIRS[p], k, c, q)
                           /\ neighbour(c, q) >= 0 =>
                                  /\ neighbour(neighbour(c, q), FLIPDIRS[q]) = c
                                  /\ Redirected(neighbour(c, q), FLIPDIRS[q], k, c, p)
                    /\ \A k \in 0..max_bounces, d \in {p, q} :
                           from(d) >= 0 =>
                               /\ neighbour(from(d), d) = c
                               /\ trace(positions, from(d), d, k) = Stopped(from(d), k)
                               /\ trace(blocked, from(d), d, k) = Stopped(from(d), k)

\* C16: in every state reached, every bouncer alone on its cell redirects
\* the slides that enter it from flip(p) to q and from flip(q) to p, and
\* stops those moving in p or q before it, as a block would.
C16_BouncerRedirection == []C16_EveryBouncer

\* C16, witness: the generator yields a slide that two bouncers, each alone
\* on its cell, have redirected
C16_Witness ==
    /\ InBody
    /\ trace(positions, Top.move.start_position, Top.move.direction, 0)
           = Stopped(Top.move.stop_position, 2)
    /\ \A n \in DOMAIN kwargs.bouncers :
           positions[xy_to_position(kwargs.bouncers[n].x, kwargs.bouncers[n].y)]
               = marker(kwargs.bouncers[n])

RECURSIVE Slide(_, _, _, _, _)
\* The slide with no limit on redirections: where it rests and after how
\* many redirections ("stop"), that it comes to a bouncer whose cell gives
\* no direction ("KeyError"), or that it never rests ("loop": it has taken
\* more steps than there are cells and directions)
Slide(cells, position, direction, bounces, steps) ==
    LET next_pos == neighbour(position, direction)
        blocker == ROBOT + BLOCK + FLIPDIRS[direction]
    IN  IF steps > 4 * width * height THEN
            [kind |-> "loop", position |-> -1, bounces |-> bounces]
        ELSE IF next_pos < 0 \/ has(cells, next_pos, blocker) # 0 THEN
            Stopped(position, bounces)
        ELSE IF has(cells, next_pos, BOUNCER) # 0 THEN
            LET key == BitAndNot(cells[next_pos], BitOr(BOUNCER, direction))
            IN  IF key \notin DOMAIN FLIPDIRS THEN
                    Raised("KeyError", bounces)
                ELSE
                    Slide(cells, next_pos, FLIPDIRS[key], bounces + 1, steps + 1)
        ELSE
            Slide(cells, next_pos, direction, bounces, steps + 1)

\* The cells slides are resolved from
SlideStarts == { robots[i] : i \in DOMAIN robots }

\* C17, of the states in which the generator resolves slides:
\* a slide (of a robot, in any direction) that bouncers redirect
\* exactly k times before it rests resolves to that resting cell when
\* k <= max_bounces and fails with BounceLoop when k > max_bounces, as does
\* a slide that never rests; with max_bounces = 0 every slide whose next
\* cell is a bouncer that does not block it fails with BounceLoop.
C17_EverySlide ==
    InFor =>
        \A at \in SlideStarts, d \in {NORTH, EAST, SOUTH, WEST} :
            LET free == Slide(positions, at, d, 0, 0)
                stop == trace(positions, at, d, 0)
                next_pos == neighbour(at, d)
            IN  /\ (free.kind = "stop" /\ free.bounces <= max_bounces) =>
                       stop = Stopped(free.position, free.bounces)
                /\ (free.kind = "stop" /\ free.bounces > max_bounces) =>
                       stop.kind = "BounceLoopException"
                /\ free.kind = "loop" => stop.kind = "BounceLoopException"
                /\ (/\ max_bounces = 0
                    /\ next_pos >= 0
                    /\ has(positions, next_pos, BOUNCER) # 0
                    /\ has(positions, next_pos, ROBOT + BLOCK + FLIPDIRS[d]) = 0) =>
                       stop.kind = "BounceLoopException"

\* C17: in every state reached, a slide redirected k times before it rests
\* resolves iff k <= max_bounces and fails with BounceLoop otherwise.
C17_BounceLimit == []C17_EverySlide

\* C17, witness: with max_bounces >= 1, one slide of a robot is redirected
\* exactly max_bounces times and rests, and another would rest after more
\* than max_bounces redirections and fails with BounceLoop
C17_Witness ==
    /\ InFor
    /\ max_bounces >= 1
    /\ \E i \in DOMAIN robots, d \in {NORTH, EAST, SOUTH, WEST} :
           /\ Slide(positions, robots[i], d, 0, 0).kind = "stop"
           /\ Slide(positions, robots[i], d, 0, 0).bounces = max_bounces
           /\ trace(positions, robots[i], d, 0).kind = "stop"
    /\ \E i \in DOMAIN robots, d \in {NORTH, EAST, SOUTH, WEST} :
           /\ Slide(positions, robots[i], d, 0, 0).kind = "stop"
           /\ Slide(positions, robots[i], d, 0, 0).bounces > max_bounces
           /\ trace(positions, robots[i], d, 0).kind = "BounceLoopException"

\* No two robots have the same position
OneRobotPerCell ==
    \A i, j \in DOMAIN robots : i # j => robots[i] # robots[j]

\* A cell carries the ROBOT marker iff some robot's position is that cell
MarkersAreRobots ==
    \A p \in DOMAIN positions :
        has(positions, p, ROBOT) # 0 <=> \E i \in DOMAIN robots : robots[i] = p

RECURSIVE Unmarked(_, _, _)
\* The cells without the ROBOT marker on the cells of the robots i, i+1, ...
Unmarked(cells, rpos, i) ==
    IF i > Len(rpos) THEN cells
    ELSE Unmarked(remove(cells, rpos[i], ROBOT), rpos, i + 1)

\* Nothing but the ROBOT bit of a cell differs from the board as placed
OnlyRobotBitChanged ==
    LET placed_cells == InitialBoard.positions
    IN  \A p \in DOMAIN positions :
            BitAndNot(positions[p], ROBOT) = BitAndNot(placed_cells[p], ROBOT)

\* C18, as stated: if the robots start on pairwise distinct cells, then in
\* every state of the search no two robots have the same position, a cell
\* carries the ROBOT marker iff a robot's position is that cell, no robot
\* is on a BLOCK cell, and only the ROBOT bit of any cell has changed.
C18_OccupancyNoBlock ==
    (Constructed /\ DistinctStarts) =>
        /\ \A i \in DOMAIN robots : has(positions, robots[i], BLOCK) = 0
        /\ OneRobotPerCell
        /\ MarkersAreRobots
        /\ OnlyRobotBitChanged

\* C18, amended: the same, but a robot is on a BLOCK cell only while it is
\* on the cell it was placed on (no slide rests on a BLOCK cell).  (The
\* ROBOT markers being on the robots' cells only, the other bits are those
\* of the board as placed iff the cells without the robots' markers are.)
C18_OccupancyHere ==
    Constructed =>
        LET board == InitialBoard
        IN  (\A i, j \in DOMAIN board.robots :
                 i # j => board.robots[i] # board.robots[j]) =>
                /\ OneRobotPerCell
                /\ MarkersAreRobots
                /\ \A i \in DOMAIN robots :
                       has(positions, robots[i], BLOCK) # 0 =>
                           robots[i] = board.robots[i]
                /\ Unmarked(positions, robots, 1)
                       = Unmarked(board.positions, board.robots, 1)
                /\ InBody => has(positions, Top.move.stop_position, BLOCK) = 0

\* C18, amended: in every state reached, if the robots were placed on
\* pairwise distinct cells the occupancy invariant holds, a robot being on
\* a BLOCK cell only while on the cell it was placed on.
C18_Occupancy == []C18_OccupancyHere

\* C18, witness: on a board with a block, two robots that started on
\* distinct cells have both been moved, two levels down in the search
C18_Witness ==
    /\ pc = "search_rec" /\ DistinctStarts
    /\ kwargs.blocks # <<>>
    /\ Len(robots) = 2
    /\ Len(stack) >= 3
    /\ \A i \in DOMAIN robots : robots[i] # InitialBoard.robots[i]
    /\ MarkersAreRobots

\* C19: every reported solution has at least one move, was found with a
\* budget of at least 1, and is reported right after its last move was
\* executed, with the ROBOT marker on the goal cell and some robot's
\* position the goal, also when a robot started on the goal; the budget 0
\* is handed to search_rec, which returns False at once: no move is
\* tried, nothing is recorded, the board stays as placed.
C19_NoZeroMoveSolution ==
    /\ Solution =>
           /\ Len(moves) >= 1
           /\ remaining_moves >= 1
           /\ moves[Len(moves)] = Top.move
           /\ robots[Top.move.robot] = Top.move.stop_position
           /\ Top.move.stop_position # Top.move.start_position
           /\ has(positions, goal, ROBOT) # 0
           /\ RobotOnGoal(Board)
    /\ (pc = "search_rec" /\ remaining_moves = 0) =>
           /\ stack = <<Frame(0, "enter")>>
           /\ moves = <<>>
           /\ states_of_despair = <<>>
           /\ Board = InitialBoard
    /\ (pc = "search" /\ min_moves = 0 /\ remaining_moves = 1) =>
           /\ moves = <<>>
           /\ states_of_despair = <<>>
           /\ Board = InitialBoard
           /\ outcome = ""
    /\ (NoSolution /\ max_moves = 0) =>
           (moves = <<>> /\ states_of_despair = <<>> /\ Board = InitialBoard)

\* C19, witness: a robot was placed on the goal and min_moves is 0; the
\* budget 0 failed, and a solution of one move or more is reported
C19_Witness ==
    /\ Solution
    /\ min_moves = 0
    /\ \E i \in DOMAIN robots : InitialBoard.robots[i] = goal
    /\ remaining_moves >= 1
    /\ Len(moves) >= 1

RECURSIVE ComesBack(_, _, _, _, _, _)
\* The slide from the cell position in a direction, on cells that do not
\* carry the sliding robot's own marker: whether it comes back to the cell
\* start, and then the cell it is on just before and the redirections so far
ComesBack(cells, start, position, direction, bounces, steps) ==
    LET next_pos == neighbour(position, direction)
        blocker == ROBOT + BLOCK + FLIPDIRS[direction]
        no == [back |-> FALSE, before |-> -1, bounces |-> bounces]
    IN  IF steps > 4 * width * height THEN no
        ELSE IF next_pos < 0 \/ has(cells, next_pos, blocker) # 0 THEN no
        ELSE IF next_pos = start THEN
            [back |-> TRUE, before |-> position, bounces |-> bounces]
        ELSE IF has(cells, next_pos, BOUNCER) # 0 THEN
            LET key == BitAndNot(cells[next_pos], BitOr(BOUNCER, direction))
            IN  IF key \notin DOMAIN FLIPDIRS THEN no
                ELSE ComesBack(cells, start, next_pos, FLIPDIRS[key],
                               bounces + 1, steps + 1)
        ELSE
            ComesBack(cells, start, next_pos, direction, bounces, steps + 1)

\* C20, the marker: when the generator resolves slides, every robot's
\* cell carries the ROBOT marker, and, on a board with bouncers, a slide
\* of robot i that would come back to the robot's own cell (after at most
\* max_bounces redirections) rests on the cell just before it.
C20_OwnMarker ==
    \A i \in DOMAIN robots :
        /\ has(positions, robots[i], ROBOT) # 0
        /\ \A j \in { n \in DOMAIN DIRECTIONS : kwargs.bouncers # <<>> } :
               LET lap == ComesBack(remove(positions, robots[i], ROBOT),
                                    robots[i], robots[i], DIRECTIONS[j], 0, 0)
               IN  (lap.back /\ lap.bounces <= max_bounces) =>
                     /\ trace(positions, robots[i], DIRECTIONS[j], 0)
                            = Stopped(lap.before, lap.bounces)
                     /\ lap.before # robots[i]
                     /\ \E d \in {NORTH, EAST, SOUTH, WEST} :
                            neighbour(lap.before, d) = robots[i]

\* C20, the moves: a Move the generator yields goes from the robot's cell
\* to another cell of the board that carries neither ROBOT nor BLOCK.
C20_Yielded ==
    InBody =>
        /\ Top.move.start_position = robots[Top.move.robot]
        /\ Top.move.stop_position # Top.move.start_position
        /\ Top.move.stop_position \in DOMAIN positions
        /\ has(positions, Top.move.stop_position, ROBOT + BLOCK) = 0

C20_MarkerAndMoves ==
    ((InFor /\ DistinctStarts) => C20_OwnMarker) /\ C20_Yielded

====
